---- MODULE Spec2Model ----
(***************************************************************************)
(* Position-aware order execution engine of shioaji-api-dashboard          *)
(* (src/trading.py): contract lookup, position reading, order sizing and   *)
(* order submission, against a brokerage session whose answers (position   *)
(* list, acceptance or failure of a call) are the environment's choice.    *)
(***************************************************************************)
EXTENDS Integers, Sequences, FiniteSets, TLC

(* ------------------------------ bounds --------------------------------- *)
\* largest quantity of a request and of a position entry
MaxQty == 2
\* largest number of entries of the exchange's initial position list
MaxPositions == 2
\* largest number of consecutive placement calls of one caller
MaxCalls == 2
\* largest number of contracts the catalog lists under one product family
MaxListed == 2
\* largest number of deals the exchange reports for one order
MaxDeals == 2
\* largest number of status refreshes asked of the exchange
MaxRefresh == 2

(* --------------------------- plain values ------------------------------ *)
Buy == "Buy"
Sell == "Sell"
\* a direction value that is neither Action.Buy nor Action.Sell
Invalid == "Invalid"
Actions == {Buy, Sell}

\* Python's None is the empty tuple, a present value v is <<v>>
None == <<>>
Some(v) == <<v>>

Abs(n) == IF n < 0 THEN -n ELSE n

\* the concurrent callers of the engine (request handlers)
Procs == {"r1", "r2"}

(* ------------------------------ contracts ------------------------------ *)
\* SUPPORTED_FUTURES: the default product families
SUPPORTED_FUTURES == <<"MXF", "TXF">>

Contract(symbol, code, category, delivery_month) ==
    [symbol |-> symbol, code |-> code, category |-> category,
     delivery_month |-> delivery_month]

\* a rolling alias (code = symbol) and the actual contract of the same month
MXFR1 == Contract("MXFR1", "MXFR1", "MXF", "202601")
MXF202601 == Contract("MXF202601", "MXFA6", "MXF", "202601")
\* a rolling alias whose actual contract is not in the catalog
TXFR1 == Contract("TXFR1", "TXFR1", "TXF", "202601")
\* a contract of another family listed under MXF in the shared catalog
TXF202602 == Contract("TXF202602", "TXFB6", "TXF", "202602")
\* an actual contract of another month
MXF202602 == Contract("MXF202602", "MXFB6", "MXF", "202602")

\* the family code a symbol starts with (all family codes have 3 letters)
SymbolPrefix(symbol) ==
    CASE symbol \in {"MXFR1", "MXF202601", "MXF202602"} -> "MXF"
      [] symbol \in {"TXFR1", "TXF202602"} -> "TXF"
      [] OTHER -> "???"

\* symbol.startswith(product)
StartsWith(symbol, product) == SymbolPrefix(symbol) = product

\* api.Contracts.Futures: product family -> its contracts; a family absent
\* from the catalog maps to the empty sequence (getattr(..., None))
FullCatalog ==
    [MXF |-> <<MXFR1, TXF202602, MXF202601>>, TXF |-> <<TXFR1>>]
SmallCatalog ==
    [MXF |-> <<MXF202601>>, TXF |-> <<>>]

\* the code under which the exchange books positions of a contract: the
\* contract's own code, or for a rolling alias the actual contract's code
ExchangeCode(contract) ==
    CASE contract.code = "MXFR1" -> "MXFA6"
      [] contract.code = "TXFR1" -> "TXFA6"
      [] OTHER -> contract.code

PosCodes == {"MXFA6", "TXFA6"}

FilterProduct(product_contracts, product) ==
    SelectSeq(product_contracts, LAMBDA c : StartsWith(c.symbol, product))

RECURSIVE get_futures_contracts_from(_, _)
get_futures_contracts_from(cat, i) ==
    IF i > Len(SUPPORTED_FUTURES) THEN <<>>
    ELSE FilterProduct(cat[SUPPORTED_FUTURES[i]], SUPPORTED_FUTURES[i])
           \o get_futures_contracts_from(cat, i + 1)

\* _get_futures_contracts(api)
get_futures_contracts(cat) == get_futures_contracts_from(cat, 1)

(* ------------------------- results of a call --------------------------- *)
\* a call either returns a value (None or Some(v)) or raises exc with a
\* message whose leading text is msg
Ret(v) == [tag |-> "return", value |-> v, exc |-> "", msg |-> ""]
Raise(exc, msg) == [tag |-> "raise", value |-> None, exc |-> exc, msg |-> msg]
Running == [tag |-> "running", value |-> None, exc |-> "", msg |-> ""]

\* the exceptions of shioaji.error that a session call can raise, and
\* "Exception" for any other exception
AccountErrors == {"AccountNotSignError", "AccountNotProvideError"}
SessionErrors ==
    {"TargetContractNotExistError", "SjTimeoutError", "Exception"}
      \cup AccountErrors

(* --------------------------- contract lookup --------------------------- *)
\* first_with_symbol comparing the contract's code with the symbol asked for
RECURSIVE first_with_symbol_by_code(_, _, _)
first_with_symbol_by_code(contracts, symbol, i) ==
    IF i > Len(contracts)
      THEN Raise("ValueError", "Contract not found in supported futures")
    ELSE IF contracts[i].code = symbol THEN Ret(Some(contracts[i]))
    ELSE first_with_symbol_by_code(contracts, symbol, i + 1)

RECURSIVE first_with_symbol(_, _, _)
first_with_symbol(contracts, symbol, i) ==
    IF i > Len(contracts)
      THEN Raise("ValueError", "Contract not found in supported futures")
    ELSE IF contracts[i].symbol = symbol THEN Ret(Some(contracts[i]))
    ELSE first_with_symbol(contracts, symbol, i + 1)

\* get_contract_from_symbol(api, symbol)
get_contract_from_symbol(cat, symbol) ==
    first_with_symbol(get_futures_contracts(cat), symbol, 1)

RECURSIVE first_with_code(_, _, _)
first_with_code(contracts, contract_code, i) ==
    IF i > Len(contracts)
      THEN Raise("ValueError", "Contract not found in supported futures")
    ELSE IF contracts[i].code = contract_code THEN Ret(Some(contracts[i]))
    ELSE first_with_code(contracts, contract_code, i + 1)

\* get_contract_from_contract_code(api, contract_code)
get_contract_from_contract_code(cat, contract_code) ==
    first_with_code(get_futures_contracts(cat), contract_code, 1)

\* first_actual_code taking any contract of the category and month, the
\* rolling alias included
RECURSIVE first_actual_code_any(_, _, _)
first_actual_code_any(contracts, contract, i) ==
    IF i > Len(contracts) THEN contract.code
    ELSE IF /\ contracts[i].category = contract.category
            /\ contracts[i].delivery_month = contract.delivery_month
      THEN contracts[i].code
    ELSE first_actual_code_any(contracts, contract, i + 1)

RECURSIVE first_actual_code(_, _, _)
first_actual_code(contracts, contract, i) ==
    IF i > Len(contracts) THEN contract.code
    ELSE IF /\ contracts[i].category = contract.category
            /\ contracts[i].delivery_month = contract.delivery_month
            /\ contracts[i].code # contracts[i].symbol
      THEN contracts[i].code
    ELSE first_actual_code(contracts, contract, i + 1)

\* resolve_actual_contract_code(api, contract)
resolve_actual_contract_code(cat, contract) ==
    IF contract.code # contract.symbol THEN contract.code
    ELSE first_actual_code(get_futures_contracts(cat), contract, 1)

(* ---------------------------- position read ---------------------------- *)
\* scan_positions returning the quantity whatever the direction
RECURSIVE scan_positions_unsigned(_, _, _)
scan_positions_unsigned(listed, actual_code, i) ==
    IF i > Len(listed) THEN Ret(None)
    ELSE IF actual_code = listed[i].code
      THEN IF listed[i].direction \in {Buy, Sell}
             THEN Ret(Some(listed[i].quantity))
           ELSE Raise("ValueError", "Position has invalid direction")
    ELSE scan_positions_unsigned(listed, actual_code, i + 1)

\* scan_positions passing over an entry of invalid direction
RECURSIVE scan_positions_lenient(_, _, _)
scan_positions_lenient(listed, actual_code, i) ==
    IF i > Len(listed) THEN Ret(None)
    ELSE IF actual_code = listed[i].code /\ listed[i].direction = Buy
      THEN Ret(Some(listed[i].quantity))
    ELSE IF actual_code = listed[i].code /\ listed[i].direction = Sell
      THEN Ret(Some(-listed[i].quantity))
    ELSE scan_positions_lenient(listed, actual_code, i + 1)

\* scan_positions adding up every entry of the code instead of returning
\* at the first
RECURSIVE scan_positions_summed(_, _, _)
scan_positions_summed(listed, actual_code, i) ==
    IF i > Len(listed) THEN Ret(None)
    ELSE IF actual_code = listed[i].code
      THEN IF listed[i].direction \notin {Buy, Sell}
             THEN Raise("ValueError", "Position has invalid direction")
           ELSE LET rest == scan_positions_summed(listed, actual_code, i + 1)
                    here == IF listed[i].direction = Buy
                              THEN listed[i].quantity
                            ELSE -listed[i].quantity
                IN  IF rest.tag = "raise" THEN rest
                    ELSE IF rest.value = None THEN Ret(Some(here))
                    ELSE Ret(Some(here + rest.value[1]))
    ELSE scan_positions_summed(listed, actual_code, i + 1)

\* the loop of get_current_position over the listed positions
RECURSIVE scan_positions(_, _, _)
scan_positions(listed, actual_code, i) ==
    IF i > Len(listed) THEN Ret(None)
    ELSE IF actual_code = listed[i].code
      THEN IF listed[i].direction = Buy
             THEN Ret(Some(listed[i].quantity))
           ELSE IF listed[i].direction = Sell
             THEN Ret(Some(-listed[i].quantity))
           ELSE Raise("ValueError", "Position has invalid direction")
    ELSE scan_positions(listed, actual_code, i + 1)

\* get_current_position refusing a rolling contract it cannot resolve
get_current_position_strict(cat, listing, contract) ==
    IF listing.tag = "raise" THEN listing
    ELSE IF /\ contract.code = contract.symbol
            /\ resolve_actual_contract_code(cat, contract) = contract.code
      THEN Raise("ValueError", "Could not resolve rolling contract")
    ELSE scan_positions(listing.value[1],
                        resolve_actual_contract_code(cat, contract), 1)

\* get_current_position(api, contract); listing is what api.list_positions
\* does: Ret(Some(position list)) or Raise(a session error)
get_current_position(cat, listing, contract) ==
    IF listing.tag = "raise" THEN listing
    ELSE scan_positions(listing.value[1],
                        resolve_actual_contract_code(cat, contract), 1)

\* `x or 0` of Python: None and 0 give 0
OrZero(v) == IF v = None THEN 0 ELSE v[1]

\* the try block around get_current_position in place_entry_order and in
\* place_exit_order: account errors become OrderError, a returned value
\* becomes `value or 0`, any other exception propagates unchanged
read_current_position(got) ==
    IF got.tag = "return" THEN Ret(Some(OrZero(got.value)))
    ELSE IF got.exc \in AccountErrors THEN Raise("OrderError", "Account error")
    ELSE got

(* ------------------------------- sizing -------------------------------- *)
\* entry_quantity with the short reversal adding the signed position
entry_quantity_signed(action, quantity, current_position) ==
    IF action = Buy /\ current_position < 0
      THEN quantity + current_position
    ELSE IF action = Sell /\ current_position > 0
      THEN quantity + current_position
    ELSE quantity

\* entry_quantity without the reversal adjustment
entry_quantity_plain(action, quantity, current_position) == quantity

\* entry_quantity with the long reversal written like the short one
entry_quantity_copied(action, quantity, current_position) ==
    IF action = Buy /\ current_position < 0
      THEN quantity - current_position
    ELSE IF action = Sell /\ current_position > 0
      THEN quantity - current_position
    ELSE quantity

\* the quantity of an entry order, place_entry_order's reversal adjustment
entry_quantity(action, quantity, current_position) ==
    IF action = Buy /\ current_position < 0
      THEN quantity - current_position
    ELSE IF action = Sell /\ current_position > 0
      THEN quantity + current_position
    ELSE quantity

\* api.Order(action=..., quantity=..., MKT, IOC, Auto) of place_entry_order
entry_order(action, quantity, current_position) ==
    [action |-> action,
     quantity |-> entry_quantity(action, quantity, current_position)]

\* exit_order closing a long whatever the sign of the position
exit_order_unsigned(position_direction, current_position) ==
    IF position_direction = Buy /\ current_position # 0
      THEN Some([action |-> Sell, quantity |-> current_position])
    ELSE IF position_direction = Sell /\ current_position < 0
      THEN Some([action |-> Buy, quantity |-> -current_position])
    ELSE None

\* exit_order buying back the signed position of a short
exit_order_negative(position_direction, current_position) ==
    IF position_direction = Buy /\ current_position > 0
      THEN Some([action |-> Sell, quantity |-> current_position])
    ELSE IF position_direction = Sell /\ current_position < 0
      THEN Some([action |-> Buy, quantity |-> current_position])
    ELSE None

\* exit_order with the bounds of both tests included
exit_order_inclusive(position_direction, current_position) ==
    IF position_direction = Buy /\ current_position >= 0
      THEN Some([action |-> Sell, quantity |-> current_position])
    ELSE IF position_direction = Sell /\ current_position <= 0
      THEN Some([action |-> Buy, quantity |-> -current_position])
    ELSE None

\* the order place_exit_order builds, or None when there is nothing to exit
exit_order(position_direction, current_position) ==
    IF position_direction = Buy /\ current_position > 0
      THEN Some([action |-> Sell, quantity |-> current_position])
    ELSE IF position_direction = Sell /\ current_position < 0
      THEN Some([action |-> Buy, quantity |-> -current_position])
    ELSE None

\* submit_result without the last clause, `except Exception`
submit_result_narrow(placed) ==
    IF placed.tag = "return" THEN placed
    ELSE IF placed.exc = "TargetContractNotExistError"
      THEN Raise("OrderError", "Target contract not exist")
    ELSE IF placed.exc = "SjTimeoutError"
      THEN Raise("OrderError", "Order timeout")
    ELSE IF placed.exc \in AccountErrors
      THEN Raise("OrderError", "Account error")
    ELSE placed

\* the try block around api.place_order: the handle is returned as it is,
\* every exception becomes OrderError
submit_result(placed) ==
    IF placed.tag = "return" THEN placed
    ELSE IF placed.exc = "TargetContractNotExistError"
      THEN Raise("OrderError", "Target contract not exist")
    ELSE IF placed.exc = "SjTimeoutError"
      THEN Raise("OrderError", "Order timeout")
    ELSE IF placed.exc \in AccountErrors
      THEN Raise("OrderError", "Account error")
    ELSE Raise("OrderError", "Unexpected error when placing order")

(* ------------------------------- state --------------------------------- *)
VARIABLES
    catalog,            \* api.Contracts.Futures
    positions,          \* the exchange's position list (api.list_positions)
    orders,             \* orders the exchange accepted and has not filled
    accepted,           \* number of orders the exchange accepted so far
    limit,              \* per caller: number of placement calls it will make
    calls,              \* per caller: number of placement calls it started
    place_order_calls,  \* number of api.place_order calls made so far
    pc,                 \* per caller: where its placement call stands
    req,                \* per caller: the arguments of its call
    contract,           \* per caller: local `contract`
    current_position,   \* per caller: local `current_position`
    order,              \* per caller: local `order`, None before it is built
    log,                \* per caller: the session calls of its call, in order
    outcome,            \* per caller: what its call returned or raised
    serialized,         \* whether the callers hold an external lock per call
    lookup,             \* the last lookup in the contract directory
    trade,              \* the order handle given to check_order_status
    exchange_status,    \* the exchange's status of that handle's order
    report,             \* what check_order_status returned or raised
    update_status_calls,\* number of api.update_status calls made so far
    db,                 \* the audit records committed (OrderHistory rows)
    response            \* per caller: the HTTP response of create_order

\* the state of the placement flows
placement == <<catalog, positions, orders, accepted, limit, calls,
               place_order_calls, pc, req, contract, current_position, order,
               log, outcome>>

\* the state of the contract directory probe, of the status reconciler and
\* of the calling layer
beyond == <<serialized, lookup, trade, exchange_status, report,
            update_status_calls, db, response>>

vars == <<placement, beyond>>

exchange == <<catalog, positions, orders, accepted>>
locals == <<req, contract, current_position, order, log, outcome>>

NoRequest == [fn |-> "", action |-> "", symbol |-> "", quantity |-> 0]

\* a lookup in the contract directory: the function, its argument in a
\* one-element tuple and what it returned or raised
Lookup(fn, arg, res) == [fn |-> fn, arg |-> arg, res |-> res]
NoLookup == Lookup("", None, Running)

\* one call of check_order_status: what api.update_status did in it
\* (Running when it was not called) and what the call returned or raised
StatusCheck(update, res) == [update |-> update, res |-> res]

\* a session call as the log keeps it: the operation, the order passed to
\* it (None when it takes none) and what it returned or raised
ApiCall(api, arg, res) == [api |-> api, arg |-> arg, res |-> res]

(* --------------------------- exchange values --------------------------- *)
Directions == {Buy, Sell, Invalid}

\* the entries of a position list: any direction and quantity on MXFA6, the
\* code the catalog's contracts resolve to, and any direction on TXFA6, a
\* code none of them resolves to
PositionEntries ==
    [code : {"MXFA6"}, direction : Directions, quantity : 1..MaxQty]
      \cup [code : PosCodes \ {"MXFA6"}, direction : Directions, quantity : {1}]

\* every position list the exchange may hand out, malformed ones included
PositionLists ==
    UNION {[1..n -> PositionEntries] : n \in 0..MaxPositions}

\* the lists of a healthy exchange: one entry per code, a valid direction
NetLists ==
    {<<>>} \cup
    {<<[code |-> "MXFA6", direction |-> d, quantity |-> q]>> :
        d \in Actions, q \in 1..MaxQty}

Signed(action, quantity) == IF action = Buy THEN quantity ELSE -quantity

RECURSIVE NetOf(_, _, _)
NetOf(listed, code, i) ==
    IF i > Len(listed) THEN 0
    ELSE (IF listed[i].code = code /\ listed[i].direction \in Actions
            THEN Signed(listed[i].direction, listed[i].quantity) ELSE 0)
         + NetOf(listed, code, i + 1)

\* the position list after the exchange filled `quantity` of `action` on
\* `code`: the valid entries of the code are replaced by their new net
ApplyFill(listed, code, action, quantity) ==
    LET net == NetOf(listed, code, 1) + Signed(action, quantity)
        rest == SelectSeq(listed,
                  LAMBDA e : ~(e.code = code /\ e.direction \in Actions))
    IN  IF net = 0 THEN rest
        ELSE Append(rest, [code |-> code,
                           direction |-> IF net > 0 THEN Buy ELSE Sell,
                           quantity |-> Abs(net)])

\* the symbols a caller may ask for: every symbol of the shared catalog
RequestSymbols(cat) ==
    UNION {{cat[f][i].symbol : i \in DOMAIN cat[f]} : f \in DOMAIN cat}

(* ------------------------------ actions -------------------------------- *)
Idle(p) ==
    /\ req' = [req EXCEPT ![p] = NoRequest]
    /\ contract' = [contract EXCEPT ![p] = None]
    /\ current_position' = [current_position EXCEPT ![p] = None]
    /\ order' = [order EXCEPT ![p] = None]
    /\ log' = [log EXCEPT ![p] = <<>>]
    /\ outcome' = [outcome EXCEPT ![p] = Running]

\* a call ends: it returns or raises `result`
Ends(p, result) ==
    /\ pc' = [pc EXCEPT ![p] = "done"]
    /\ outcome' = [outcome EXCEPT ![p] = result]

\* the external mutual-exclusion scope of callers that serialize: a call
\* starts when no other call is in progress and every order has filled
MayBegin(p) ==
    serialized =>
        /\ \A q \in Procs \ {p} : pc[q] = "idle"
        /\ orders = <<>>

\* the start of place_entry_order and of place_exit_order up to the
\* contract lookup: an unknown symbol ends the call with OrderError
Begin(p, request) ==
    LET found == get_contract_from_symbol(catalog, request.symbol) IN
    /\ pc[p] = "idle"
    /\ calls[p] < limit[p]
    /\ MayBegin(p)
    /\ calls' = [calls EXCEPT ![p] = @ + 1]
    /\ req' = [req EXCEPT ![p] = request]
    /\ log' = [log EXCEPT ![p] = <<ApiCall("Contracts", None, found)>>]
    /\ IF found.tag = "raise"
         THEN /\ Ends(p, Raise("OrderError", "Contract not found"))
              /\ UNCHANGED contract
         ELSE /\ pc' = [pc EXCEPT ![p] = "get_current_position"]
              /\ contract' = [contract EXCEPT ![p] = found.value]
              /\ UNCHANGED outcome
    /\ UNCHANGED <<exchange, limit, place_order_calls, current_position, order>>
    /\ UNCHANGED beyond

place_entry_order(p) ==
    \E action \in Actions, symbol \in RequestSymbols(catalog),
       quantity \in 1..MaxQty :
        Begin(p, [fn |-> "place_entry_order", action |-> action,
                  symbol |-> symbol, quantity |-> quantity])

place_exit_order(p) ==
    \E position_direction \in Actions, symbol \in RequestSymbols(catalog) :
        Begin(p, [fn |-> "place_exit_order", action |-> position_direction,
                  symbol |-> symbol, quantity |-> 0])

\* what api.list_positions can do: hand out the list or raise
ListPositionsResults ==
    {Ret(Some(positions))}
      \cup {Raise(e, "") : e \in SessionErrors \ {"TargetContractNotExistError"}}

\* the order a call builds from the position it read
build_order(request, position) ==
    IF request.fn = "place_entry_order"
      THEN Some(entry_order(request.action, request.quantity, position))
      ELSE exit_order(request.action, position)

\* the position read and the sizing that follows it: the read fails and the
\* call ends, or the order is built, or (exit only) the call returns None
read_position(p) ==
    /\ pc[p] = "get_current_position"
    /\ \E listing \in ListPositionsResults :
        LET got == get_current_position(catalog, listing, contract[p][1])
            read == read_current_position(got)
            built == build_order(req[p], read.value[1])
        IN  /\ log' = [log EXCEPT
                        ![p] = Append(@, ApiCall("list_positions", None, listing))]
            /\ IF read.tag = "raise"
                 THEN /\ Ends(p, read)
                      /\ UNCHANGED <<current_position, order>>
                 ELSE /\ current_position' =
                            [current_position EXCEPT ![p] = read.value]
                      /\ order' = [order EXCEPT ![p] = built]
                      /\ IF built = None
                           THEN Ends(p, Ret(None))
                           ELSE /\ pc' = [pc EXCEPT ![p] = "place_order"]
                                /\ UNCHANGED outcome
    /\ UNCHANGED <<exchange, limit, calls, place_order_calls, req, contract>>
    /\ UNCHANGED beyond

\* after_place_order reading the position again after a failed submission
after_place_order_reread(p, placed) ==
    IF placed.tag = "raise" /\ Len(log[p]) < 3
      THEN "get_current_position" ELSE "done"

\* after_place_order submitting once more after a failed submission
after_place_order_retry(p, placed) ==
    IF placed.tag = "raise" /\ Len(log[p]) < 3 THEN "place_order" ELSE "done"

\* where a placement call stands after api.place_order: `return result` and
\* every except clause leave the function, none submits again
after_place_order(p, placed) == "done"

\* what api.place_order can do: accept the order and hand out its handle
\* (the number of the accepted order), or raise
PlaceOrderResults ==
    {Ret(Some(accepted + 1))} \cup {Raise(e, "") : e \in SessionErrors}

\* api.place_order(contract, order) and the end of the call
place_order(p) ==
    /\ pc[p] = "place_order"
    /\ \E placed \in PlaceOrderResults :
        LET result == submit_result(placed)
            next == after_place_order(p, placed)
        IN  /\ log' = [log EXCEPT
                        ![p] = Append(@, ApiCall("place_order", order[p], placed))]
            /\ place_order_calls' = place_order_calls + 1
            /\ IF placed.tag = "return"
                 THEN /\ accepted' = accepted + 1
                      /\ orders' = Append(orders,
                            [id |-> accepted + 1,
                             code |-> ExchangeCode(contract[p][1]),
                             action |-> order[p][1].action,
                             quantity |-> order[p][1].quantity])
                 ELSE UNCHANGED <<accepted, orders>>
            /\ pc' = [pc EXCEPT ![p] = next]
            /\ outcome' = [outcome EXCEPT
                            ![p] = IF next = "done" THEN result ELSE @]
    /\ UNCHANGED <<catalog, positions, limit, calls, req, contract,
                   current_position, order>>
    /\ UNCHANGED beyond

\* the caller takes the result and is ready for its next request
finish(p) ==
    /\ pc[p] = "done"
    /\ pc' = [pc EXCEPT ![p] = "idle"]
    /\ Idle(p)
    /\ UNCHANGED <<exchange, limit, calls, place_order_calls>>
    /\ UNCHANGED beyond

\* the exchange fills an accepted order completely
fill(i) ==
    /\ i \in DOMAIN orders
    /\ positions' = ApplyFill(positions, orders[i].code, orders[i].action,
                              orders[i].quantity)
    /\ orders' = SubSeq(orders, 1, i - 1) \o SubSeq(orders, i + 1, Len(orders))
    /\ UNCHANGED <<catalog, accepted, limit, calls, place_order_calls, pc,
                   locals>>
    /\ UNCHANGED beyond

Next ==
    \/ \E p \in Procs : place_entry_order(p)
    \/ \E p \in Procs : place_exit_order(p)
    \/ \E p \in Procs : read_position(p)
    \/ \E p \in Procs : place_order(p)
    \/ \E p \in Procs : finish(p)
    \/ \E i \in DOMAIN orders : fill(i)

InitLocals ==
    /\ calls = [p \in Procs |-> 0]
    /\ place_order_calls = 0
    /\ accepted = 0
    /\ orders = <<>>
    /\ pc = [p \in Procs |-> "idle"]
    /\ req = [p \in Procs |-> NoRequest]
    /\ contract = [p \in Procs |-> None]
    /\ current_position = [p \in Procs |-> None]
    /\ order = [p \in Procs |-> None]
    /\ log = [p \in Procs |-> <<>>]
    /\ outcome = [p \in Procs |-> Running]

\* nothing looked up, no handle checked, nothing audited
InitBeyond ==
    /\ lookup = NoLookup
    /\ trade = None
    /\ exchange_status = None
    /\ report = StatusCheck(Running, Running)
    /\ update_status_calls = 0
    /\ db = <<>>
    /\ response = [p \in Procs |-> None]

\* one placement call, by caller r1, against any catalog symbol and any
\* position list
Init ==
    /\ catalog = FullCatalog
    /\ positions \in PositionLists
    /\ limit = [p \in Procs |-> IF p = "r1" THEN 1 ELSE 0]
    /\ InitLocals
    /\ InitBeyond
    /\ serialized = FALSE

Spec == Init /\ [][Next]_vars

\* runs on one contract of a healthy exchange: MaxCalls placement calls of
\* r1 one after the other, or one call of r1 and one of r2 at any time
InitRun ==
    /\ catalog = SmallCatalog
    /\ positions \in NetLists
    /\ limit \in {[p \in Procs |-> IF p = "r1" THEN MaxCalls ELSE 0],
                  [p \in Procs |-> 1]}
    /\ InitLocals
    /\ InitBeyond
    /\ serialized = FALSE

SpecRun == InitRun /\ [][Next]_vars

\* the same runs with the callers serialized by an external lock that a
\* caller holds until its order has filled
InitSerial ==
    /\ catalog = SmallCatalog
    /\ positions \in NetLists
    /\ limit \in {[p \in Procs |-> IF p = "r1" THEN MaxCalls ELSE 0],
                  [p \in Procs |-> 1]}
    /\ InitLocals
    /\ InitBeyond
    /\ serialized = TRUE

SpecSerial == InitSerial /\ [][Next]_vars

(* ------------------------- contract directory -------------------------- *)
\* the contracts a catalog can list, the symbols and the codes a lookup can
\* ask for: those of the contracts, and a leading part of one of them
Pool == {MXFR1, MXF202601, MXF202602, TXFR1, TXF202602}
LookupSymbols == {c.symbol : c \in Pool} \cup {"MXF2026"}
LookupCodes == {c.code : c \in Pool} \cup {"MXFA"}

\* the lists of at most n different contracts
Listings(n) ==
    {l \in UNION {[1..k -> Pool] : k \in 0..n} :
        \A i, j \in DOMAIN l : l[i] = l[j] => i = j}

\* api.Contracts.Futures of a session: whatever contracts under each family
Catalogs == [MXF : Listings(MaxListed), TXF : Listings(MaxListed)]

\* GET /symbols/{symbol}: get_contract_from_symbol on the session's catalog
symbol_lookup(symbol) ==
    /\ lookup' = Lookup("get_contract_from_symbol", Some(symbol),
                        get_contract_from_symbol(catalog, symbol))
    /\ UNCHANGED <<placement, serialized, trade, exchange_status, report,
                   update_status_calls, db, response>>

\* get_contract_from_contract_code on the session's catalog
contract_code_lookup(contract_code) ==
    /\ lookup' = Lookup("get_contract_from_contract_code", Some(contract_code),
                        get_contract_from_contract_code(catalog, contract_code))
    /\ UNCHANGED <<placement, serialized, trade, exchange_status, report,
                   update_status_calls, db, response>>

\* resolve_actual_contract_code on the session's catalog
code_resolution(c) ==
    /\ lookup' = Lookup("resolve_actual_contract_code", Some(c),
                        Ret(Some(resolve_actual_contract_code(catalog, c))))
    /\ UNCHANGED <<placement, serialized, trade, exchange_status, report,
                   update_status_calls, db, response>>

NextDirectory ==
    \/ \E symbol \in LookupSymbols : symbol_lookup(symbol)
    \/ \E contract_code \in LookupCodes : contract_code_lookup(contract_code)
    \/ \E c \in Pool : code_resolution(c)

\* a session with any catalog, no position and no placement call
InitDirectory ==
    /\ catalog \in Catalogs
    /\ positions = <<>>
    /\ limit = [p \in Procs |-> 0]
    /\ InitLocals
    /\ InitBeyond
    /\ serialized = FALSE

SpecDirectory == InitDirectory /\ [][NextDirectory]_vars

(* -------------------------- status reconciler -------------------------- *)
\* a deal of an order as the exchange reports it; a price the exchange left
\* out is None
Deal(price, quantity) == [price |-> price, quantity |-> quantity]
Prices == {100, 110}
Deals == {Deal(price, quantity) :
            price \in {None} \cup {Some(v) : v \in Prices},
            quantity \in 1..MaxQty}

\* OrderStatus: status, deals, deal_quantity, cancel_quantity, order_quantity
OrderStatus(status, deals, deal_quantity, cancel_quantity, order_quantity) ==
    [status |-> status, deals |-> deals, deal_quantity |-> deal_quantity,
     cancel_quantity |-> cancel_quantity, order_quantity |-> order_quantity]

\* the Trade returned by api.place_order for an order of quantity q: its
\* order and the status it had when it was submitted
Handle(q) ==
    [order |-> [id |-> "o1", quantity |-> q],
     status |-> OrderStatus("PendingSubmit", <<>>, 0, 0, 0)]

\* what api.update_status does: returns None after updating the trade in
\* place, or raises (str(e) is the exception's name here)
UpdateStatusResults == {Ret(None)} \cup {Raise(e, e) : e \in SessionErrors}

\* a / b of Python on numbers, as the fraction in lowest terms
RECURSIVE Gcd(_, _)
Gcd(a, b) == IF b = 0 THEN a ELSE Gcd(b, a % b)
Quotient(a, b) == [num |-> a \div Gcd(a, b), den |-> b \div Gcd(a, b)]
\* the float 0.0
Zero == [num |-> 0, den |-> 1]

\* deal_values leaving the quantity out of the product
RECURSIVE deal_values_unit(_, _)
deal_values_unit(deals, i) ==
    IF i > Len(deals) THEN Ret(Some(0))
    ELSE IF deals[i].price = None
      THEN Raise("TypeError", "unsupported operand type(s) for *")
    ELSE LET rest == deal_values_unit(deals, i + 1)
         IN  IF rest.tag = "raise" THEN rest
             ELSE Ret(Some(deals[i].price[1] + rest.value[1]))

\* sum(d.price * d.quantity for d in deals): the product with a missing
\* price raises TypeError
RECURSIVE deal_values(_, _)
deal_values(deals, i) ==
    IF i > Len(deals) THEN Ret(Some(0))
    ELSE IF deals[i].price = None
      THEN Raise("TypeError", "unsupported operand type(s) for *")
    ELSE LET rest == deal_values(deals, i + 1)
         IN  IF rest.tag = "raise" THEN rest
             ELSE Ret(Some(deals[i].price[1] * deals[i].quantity
                             + rest.value[1]))

\* sum(d.quantity for d in deals)
RECURSIVE deal_quantities(_, _)
deal_quantities(deals, i) ==
    IF i > Len(deals) THEN 0
    ELSE deals[i].quantity + deal_quantities(deals, i + 1)

\* the body of the try block after api.update_status returned: the report
\* read from the refreshed trade, or the exception the reading raises
status_report(tr) ==
    LET status_obj == tr.status
        order_obj == tr.order
        deals == status_obj.deals
        total_value == deal_values(deals, 1)
        total_qty == deal_quantities(deals, 1)
    IN  IF total_value.tag = "raise" THEN total_value
        ELSE Ret(Some(
          [status |-> status_obj.status,
           order_id |-> order_obj.id,
           order_quantity |-> IF status_obj.order_quantity # 0
                                THEN status_obj.order_quantity
                              ELSE order_obj.quantity,
           deal_quantity |-> status_obj.deal_quantity,
           cancel_quantity |-> status_obj.cancel_quantity,
           fill_avg_price |-> IF total_qty > 0
                                THEN Quotient(total_value.value[1], total_qty)
                              ELSE Zero,
           deals |-> deals]))

\* an except clause that names the session's exceptions only
caught_session_errors(res) ==
    IF res.tag = "raise" /\ res.exc \in SessionErrors
      THEN Ret(Some([status |-> "error", error |-> res.msg]))
    ELSE res

\* except Exception as e: return {"status": "error", "error": str(e)}
caught(res) ==
    IF res.tag = "raise"
      THEN Ret(Some([status |-> "error", error |-> res.msg]))
    ELSE res

\* check_order_status reading the order of the handle before any test
check_order_status_unguarded(tr, update, status) ==
    IF tr = None
      THEN Raise("AttributeError", "'NoneType' object has no attribute 'order'")
    ELSE caught(IF update.tag = "raise" THEN update
                ELSE status_report([tr[1] EXCEPT !.status = status[1]]))

\* check_order_status reading the status of the handle as it is before the
\* refresh
check_order_status_stale(tr, update, status) ==
    IF tr = None
      THEN Ret(Some([status |-> "no_trade",
                     error |-> "No trade object provided"]))
    ELSE caught(IF update.tag = "raise" THEN update
                ELSE status_report(tr[1]))

\* check_order_status(api, trade): tr is the handle (None or Some), update
\* what api.update_status does and status the exchange's status of the order
check_order_status(tr, update, status) ==
    IF tr = None
      THEN Ret(Some([status |-> "no_trade",
                     error |-> "No trade object provided"]))
    ELSE caught(IF update.tag = "raise" THEN update
                ELSE status_report([tr[1] EXCEPT !.status = status[1]]))

\* a call of check_order_status on the handle
check_status(update) ==
    /\ update_status_calls < MaxRefresh
    /\ report' = StatusCheck(IF trade = None THEN Running ELSE update,
                             check_order_status(trade, update, exchange_status))
    /\ update_status_calls' =
         IF trade = None THEN update_status_calls ELSE update_status_calls + 1
    /\ trade' = IF trade # None /\ update.tag = "return"
                  THEN Some([trade[1] EXCEPT !.status = exchange_status[1]])
                ELSE trade
    /\ UNCHANGED <<placement, serialized, lookup, exchange_status, db,
                   response>>

\* the exchange matches a part of the order
exchange_deal(d) ==
    /\ exchange_status # None
    /\ exchange_status[1].status \in {"Submitted", "PartFilled"}
    /\ Len(exchange_status[1].deals) < MaxDeals
    /\ exchange_status[1].deal_quantity + d.quantity <= trade[1].order.quantity
    /\ LET st == exchange_status[1]
           dealt == st.deal_quantity + d.quantity
       IN  exchange_status' = Some(
             [st EXCEPT !.deals = Append(st.deals, d),
                        !.deal_quantity = dealt,
                        !.status = IF dealt = trade[1].order.quantity
                                     THEN "Filled" ELSE "PartFilled"])
    /\ UNCHANGED <<placement, serialized, lookup, trade, report,
                   update_status_calls, db, response>>

\* the exchange cancels what is left of the order
exchange_cancel ==
    /\ exchange_status # None
    /\ exchange_status[1].status \in {"Submitted", "PartFilled"}
    /\ LET st == exchange_status[1]
       IN  exchange_status' = Some(
             [st EXCEPT !.status = "Cancelled",
                        !.cancel_quantity =
                           IF trade[1].order.quantity > st.deal_quantity
                             THEN trade[1].order.quantity - st.deal_quantity
                           ELSE 0])
    /\ UNCHANGED <<placement, serialized, lookup, trade, report,
                   update_status_calls, db, response>>

NextStatus ==
    \/ \E update \in UpdateStatusResults : check_status(update)
    \/ \E d \in Deals : exchange_deal(d)
    \/ exchange_cancel

\* no handle, or the handle of an order the exchange has just received, of
\* a quantity that MaxDeals deals can fill; the exchange reports the order's
\* quantity or leaves it 0
InitStatus ==
    /\ catalog = SmallCatalog
    /\ positions = <<>>
    /\ limit = [p \in Procs |-> 0]
    /\ InitLocals
    /\ serialized = FALSE
    /\ lookup = NoLookup
    /\ report = StatusCheck(Running, Running)
    /\ update_status_calls = 0
    /\ db = <<>>
    /\ response = [p \in Procs |-> None]
    /\ \/ trade = None /\ exchange_status = None
       \/ \E q \in 1..(MaxDeals * MaxQty) : \E oq \in {0, q} :
            /\ trade = Some(Handle(q))
            /\ exchange_status = Some(OrderStatus("Submitted", <<>>, 0, 0, oq))

SpecStatus == InitStatus /\ [][NextStatus]_vars

\* status checks of the handle of an earlier order of quantity 1 while
\* caller r1 makes one placement call on a healthy exchange
InitReconcile ==
    /\ catalog = SmallCatalog
    /\ positions \in NetLists
    /\ limit = [p \in Procs |-> IF p = "r1" THEN 1 ELSE 0]
    /\ InitLocals
    /\ serialized = FALSE
    /\ lookup = NoLookup
    /\ report = StatusCheck(Running, Running)
    /\ update_status_calls = 0
    /\ db = <<>>
    /\ response = [p \in Procs |-> None]
    /\ trade = Some(Handle(1))
    /\ exchange_status = Some(OrderStatus("Submitted", <<>>, 0, 0, 1))

NextReconcile == Next \/ NextStatus

SpecReconcile == InitReconcile /\ [][NextReconcile]_vars

(* ---------------------------- calling layer ---------------------------- *)
\* ACCEPT_ACTIONS
ACCEPT_ACTIONS == {"long_entry", "long_exit", "short_entry", "short_exit"}

\* get_valid_symbols(api)
get_valid_symbols(cat) ==
    {get_futures_contracts(cat)[i].symbol :
        i \in DOMAIN get_futures_contracts(cat)}

\* the engine call create_order makes for an order request; quantity is the
\* request's, which place_exit_order is not given
dispatch(action, symbol, quantity) ==
    [fn |-> IF action \in {"long_entry", "short_entry"}
              THEN "place_entry_order" ELSE "place_exit_order",
     action |-> IF action \in {"long_entry", "long_exit"} THEN Buy ELSE Sell,
     symbol |-> symbol,
     quantity |-> quantity]

\* the action of the order request behind an engine call
request_action(request) ==
    CASE request.fn = "place_entry_order" /\ request.action = Buy -> "long_entry"
      [] request.fn = "place_entry_order" /\ request.action = Sell -> "short_entry"
      [] request.fn = "place_exit_order" /\ request.action = Buy -> "long_exit"
      [] request.fn = "place_exit_order" /\ request.action = Sell -> "short_exit"

\* what get_api_client can do: hand out the session or raise LoginError
LoginResults == {Ret(None), Raise("LoginError", "Login failed")}

\* order_history raising the failure of the engine without a record of it
order_history_unlogged(p, request, result) ==
    LET row(status, error_message, order_result) ==
          Some([by |-> p, symbol |-> request.symbol,
                action |-> request_action(request),
                quantity |-> request.quantity, status |-> status,
                error_message |-> error_message,
                order_result |-> order_result])
    IN  IF result.tag = "raise"
          THEN IF result.exc = "LoginError"
                 THEN row("failed", Some(result.msg), None)
               ELSE None
        ELSE IF result.value = None THEN row("no_action", None, None)
        ELSE row("success", None, result.value)

\* the OrderHistory row create_order adds and commits for handler p, given
\* what the login or the engine call returned or raised: None when the
\* exception is one create_order does not catch
order_history(p, request, result) ==
    LET row(status, error_message, order_result) ==
          Some([by |-> p, symbol |-> request.symbol,
                action |-> request_action(request),
                quantity |-> request.quantity, status |-> status,
                error_message |-> error_message,
                order_result |-> order_result])
    IN  IF result.tag = "raise"
          THEN IF result.exc \in {"LoginError", "OrderError"}
                 THEN row("failed", Some(result.msg), None)
               ELSE None
        ELSE IF result.value = None THEN row("no_action", None, None)
        ELSE row("success", None, result.value)

\* the HTTP response of create_order: 503 on LoginError, 400 on OrderError,
\* 500 (the framework's) on an exception it does not catch, else 200
http_response(result) ==
    IF result.tag = "raise"
      THEN [status_code |-> CASE result.exc = "LoginError" -> 503
                              [] result.exc = "OrderError" -> 400
                              [] OTHER -> 500,
            status |-> "", detail |-> result.msg]
    ELSE [status_code |-> 200,
          status |-> IF result.value = None THEN "no_action" ELSE "success",
          detail |-> ""]

\* POST /order up to the engine call: the request is valid, the login
\* fails or the engine call starts
create_order(p) ==
    \E action \in ACCEPT_ACTIONS, symbol \in get_valid_symbols(catalog),
       quantity \in 1..MaxQty, login \in LoginResults :
        LET request == dispatch(action, symbol, quantity) IN
        IF login.tag = "raise"
          THEN /\ pc[p] = "idle"
               /\ calls[p] < limit[p]
               /\ calls' = [calls EXCEPT ![p] = @ + 1]
               /\ req' = [req EXCEPT ![p] = request]
               /\ Ends(p, login)
               /\ UNCHANGED <<exchange, limit, place_order_calls, contract,
                              current_position, order, log>>
               /\ UNCHANGED beyond
        ELSE Begin(p, request)

\* db.add(order_history); db.commit()
commit(p) ==
    /\ pc[p] = "done"
    /\ order_history(p, req[p], outcome[p]) # None
    /\ db' = Append(db, order_history(p, req[p], outcome[p])[1])
    /\ pc' = [pc EXCEPT ![p] = "committed"]
    /\ UNCHANGED <<exchange, limit, calls, place_order_calls, locals>>
    /\ UNCHANGED <<serialized, lookup, trade, exchange_status, report,
                   update_status_calls, response>>

\* raise HTTPException or return after the commit, or the exception that
\* create_order does not catch leaving it
respond(p) ==
    /\ \/ pc[p] = "committed"
       \/ pc[p] = "done" /\ order_history(p, req[p], outcome[p]) = None
    /\ response' = [response EXCEPT ![p] = Some(http_response(outcome[p]))]
    /\ pc' = [pc EXCEPT ![p] = "responded"]
    /\ UNCHANGED <<exchange, limit, calls, place_order_calls, locals>>
    /\ UNCHANGED <<serialized, lookup, trade, exchange_status, report,
                   update_status_calls, db>>

NextOrder ==
    \/ \E p \in Procs : create_order(p)
    \/ \E p \in Procs : read_position(p)
    \/ \E p \in Procs : place_order(p)
    \/ \E p \in Procs : commit(p)
    \/ \E p \in Procs : respond(p)

\* one order request, of handler r1, on one contract of a healthy exchange
InitOrder ==
    /\ catalog = SmallCatalog
    /\ positions \in NetLists
    /\ limit = [p \in Procs |-> IF p = "r1" THEN 1 ELSE 0]
    /\ InitLocals
    /\ InitBeyond
    /\ serialized = FALSE

SpecOrder == InitOrder /\ [][NextOrder]_vars

(* ------------------------------ properties ----------------------------- *)
\* the positions in a caller's log of the api.place_order calls of its call
PlaceOrderCalls(p) == {i \in DOMAIN log[p] : log[p][i].api = "place_order"}

\* the caller has read the position: `current_position` is set
HasRead(p) == current_position[p] # None

IsCall(p, fn, action) == req[p].fn = fn /\ req[p].action = action

\* the caller built exactly `want` and every order it passed to
\* api.place_order is `want`; once the call is over it did pass one
SubmitsOnly(p, want) ==
    /\ order[p] = Some(want)
    /\ pc[p] \in {"place_order", "done"}
    /\ \A i \in PlaceOrderCalls(p) : log[p][i].arg = Some(want)
    /\ pc[p] = "done" => PlaceOrderCalls(p) # {}

\* the call is over, returned None and passed no order to api.place_order
NoAction(p) ==
    /\ order[p] = None
    /\ pc[p] = "done"
    /\ outcome[p] = Ret(None)
    /\ PlaceOrderCalls(p) = {}

\* C1: a long entry (place_entry_order with Buy) of quantity q > 0 that read
\* the position p submits a Buy order of quantity q + |p| when p < 0 and of
\* quantity q when p >= 0.
C1_LongEntryQuantity ==
    \A p \in Procs :
        IsCall(p, "place_entry_order", Buy) /\ HasRead(p) =>
            LET q == req[p].quantity
                cp == current_position[p][1]
            IN  SubmitsOnly(p, [action |-> Buy,
                                quantity |-> IF cp < 0 THEN q + Abs(cp) ELSE q])

\* a long entry of 2 against a short of 1 has submitted Buy 3
C1_Witness ==
    \E p \in Procs :
        /\ IsCall(p, "place_entry_order", Buy)
        /\ req[p].quantity = 2
        /\ current_position[p] = Some(-1)
        /\ \E i \in PlaceOrderCalls(p) :
              log[p][i].arg = Some([action |-> Buy, quantity |-> 3])

\* C2: a short entry (place_entry_order with Sell) of quantity q > 0 that
\* read the position p submits a Sell order of quantity q + p when p > 0 and
\* of quantity q when p <= 0.
C2_ShortEntryQuantity ==
    \A p \in Procs :
        IsCall(p, "place_entry_order", Sell) /\ HasRead(p) =>
            LET q == req[p].quantity
                cp == current_position[p][1]
            IN  SubmitsOnly(p, [action |-> Sell,
                                quantity |-> IF cp > 0 THEN q + cp ELSE q])

\* a short entry of 1 against a long of 2 has submitted Sell 3
C2_Witness ==
    \E p \in Procs :
        /\ IsCall(p, "place_entry_order", Sell)
        /\ req[p].quantity = 1
        /\ current_position[p] = Some(2)
        /\ \E i \in PlaceOrderCalls(p) :
              log[p][i].arg = Some([action |-> Sell, quantity |-> 3])

\* C3: a long exit (place_exit_order with position_direction Buy) that read
\* the position p submits a Sell order of quantity p when p > 0, and when
\* p <= 0 it submits nothing and returns None.
C3_LongExit ==
    \A p \in Procs :
        IsCall(p, "place_exit_order", Buy) /\ HasRead(p) =>
            LET cp == current_position[p][1]
            IN  IF cp > 0
                  THEN SubmitsOnly(p, [action |-> Sell, quantity |-> cp])
                  ELSE NoAction(p)

\* a long exit against a long of 2 has submitted Sell 2
C3_Witness ==
    \E p \in Procs :
        /\ IsCall(p, "place_exit_order", Buy)
        /\ current_position[p] = Some(2)
        /\ \E i \in PlaceOrderCalls(p) :
              log[p][i].arg = Some([action |-> Sell, quantity |-> 2])

\* C4: a short exit (place_exit_order with position_direction Sell) that
\* read the position p submits a Buy order of quantity |p| when p < 0, and
\* when p >= 0 it submits nothing and returns None.
C4_ShortExit ==
    \A p \in Procs :
        IsCall(p, "place_exit_order", Sell) /\ HasRead(p) =>
            LET cp == current_position[p][1]
            IN  IF cp < 0
                  THEN SubmitsOnly(p, [action |-> Buy, quantity |-> Abs(cp)])
                  ELSE NoAction(p)

\* a short exit against a short of 2 has submitted Buy 2
C4_Witness ==
    \E p \in Procs :
        /\ IsCall(p, "place_exit_order", Sell)
        /\ current_position[p] = Some(-2)
        /\ \E i \in PlaceOrderCalls(p) :
              log[p][i].arg = Some([action |-> Buy, quantity |-> 2])

\* the actual code the caller's contract resolves to
ActualCode(p) == resolve_actual_contract_code(catalog, contract[p][1])

\* the position list the exchange holds no entry of the caller's contract
FlatFor(p) ==
    \A i \in DOMAIN positions : positions[i].code # ActualCode(p)

\* C5: an exit request whose position read happens while the contract's
\* position is flat ends at that read without calling api.place_order and
\* leaves the exchange's orders as they are; it returns None whenever the
\* position listing itself did not fail. This holds for every exit request
\* of a run, so for any number of consecutive ones.
C5_FlatExitsNoAction ==
    [][\A p \in Procs :
          ( /\ req[p].fn = "place_exit_order"
            /\ pc[p] = "get_current_position"
            /\ pc'[p] # "get_current_position"
            /\ FlatFor(p) )
          => /\ pc'[p] = "done"
             /\ log'[p][Len(log'[p])].res.tag = "return"
                   => outcome'[p] = Ret(None)
             /\ \A i \in DOMAIN log'[p] : log'[p][i].api # "place_order"
             /\ orders' = orders
             /\ accepted' = accepted
             /\ place_order_calls' = place_order_calls
             /\ positions' = positions]_vars

\* two exit requests have both returned None against a flat position and
\* the exchange has seen no order
C5_Witness ==
    /\ \A p \in Procs : req[p].fn = "place_exit_order" /\ NoAction(p)
    /\ positions = <<>>
    /\ calls["r1"] + calls["r2"] = 2
    /\ place_order_calls = 0
    /\ accepted = 0

\* C6: a placement call passes at most one order to api.place_order: exactly
\* one when it built an order and has ended, none when it built none; a
\* failed submission is not repeated, so over a run there are never more
\* api.place_order calls than placement calls.
C6_OneSubmissionPerCall ==
    /\ \A p \in Procs :
          /\ Cardinality(PlaceOrderCalls(p)) <= 1
          /\ order[p] = None => PlaceOrderCalls(p) = {}
          /\ order[p] # None /\ pc[p] = "done"
                => Cardinality(PlaceOrderCalls(p)) = 1
    /\ place_order_calls <= calls["r1"] + calls["r2"]

\* a call whose submission timed out has ended with one api.place_order call
C6_Witness ==
    \E p \in Procs :
        /\ pc[p] = "done"
        /\ Cardinality(PlaceOrderCalls(p)) = 1
        /\ \E i \in PlaceOrderCalls(p) :
              log[p][i].res = Raise("SjTimeoutError", "")
        /\ place_order_calls = 1

\* C7: a placement call that reached api.place_order and has ended either
\* returned the handle api.place_order returned or raised OrderError: every
\* exception of api.place_order ends the call with OrderError, never with
\* another exception and never with None.
C7_SubmissionAtomic ==
    \A p \in Procs : \A i \in PlaceOrderCalls(p) :
        pc[p] = "done" =>
            IF log[p][i].res.tag = "return"
              THEN /\ outcome[p] = log[p][i].res
                   /\ outcome[p].value # None
              ELSE /\ outcome[p].tag = "raise"
                   /\ outcome[p].exc = "OrderError"

\* a call whose api.place_order raised an exception outside shioaji.error
\* has ended with OrderError
C7_Witness ==
    \E p \in Procs : \E i \in PlaceOrderCalls(p) :
        /\ pc[p] = "done"
        /\ log[p][i].res = Raise("Exception", "")
        /\ outcome[p] =
             Raise("OrderError", "Unexpected error when placing order")

\* the session calls of the caller's placement call that raised
FailedSessionCalls(p) ==
    {i \in DOMAIN log[p] :
        /\ log[p][i].api \in {"list_positions", "place_order"}
        /\ log[p][i].res.tag = "raise"}

\* C8: a placement call in which a session call (the position listing or
\* the order submission) raised a timeout or another failure ends with
\* OrderError.
C8_SessionFailuresClassified ==
    \A p \in Procs :
        pc[p] = "done" /\ FailedSessionCalls(p) # {} =>
            outcome[p].tag = "raise" /\ outcome[p].exc = "OrderError"

\* the position list api.list_positions handed to the caller, in a
\* one-element tuple, or None when it has not handed out one
Listed(p) ==
    IF \E i \in DOMAIN log[p] :
          log[p][i].api = "list_positions" /\ log[p][i].res.tag = "return"
      THEN (log[p][CHOOSE i \in DOMAIN log[p] :
                       log[p][i].api = "list_positions"].res).value
      ELSE None

\* the indices of the entries of `listed` that carry the caller's actual code
Matching(p, listed) ==
    {i \in DOMAIN listed : listed[i].code = ActualCode(p)}

FirstOf(S) == CHOOSE i \in S : \A j \in S : i <= j

\* C9: get_current_position returns +quantity when the (first) listed entry
\* with the contract's actual code has direction Buy, -quantity when it has
\* direction Sell, and None when no listed entry has that code; the
\* placement call then holds that value, None taken as 0.
C9_SignedPosition ==
    \A p \in Procs :
        Listed(p) # None =>
            LET listed == Listed(p)[1]
                got == get_current_position(catalog, Ret(Listed(p)),
                                            contract[p][1])
                M == Matching(p, listed)
            IN  IF M = {}
                  THEN got = Ret(None) /\ current_position[p] = Some(0)
                ELSE IF listed[FirstOf(M)].direction = Buy
                  THEN /\ got = Ret(Some(listed[FirstOf(M)].quantity))
                       /\ current_position[p] = got.value
                ELSE IF listed[FirstOf(M)].direction = Sell
                  THEN /\ got = Ret(Some(-listed[FirstOf(M)].quantity))
                       /\ current_position[p] = got.value
                ELSE TRUE

\* a caller holds -2 read from a list whose second entry is the matching
\* one, a short of 2
C9_Witness ==
    \E p \in Procs :
        /\ Listed(p) # None
        /\ Matching(p, Listed(p)[1]) = {2}
        /\ Listed(p)[1][2].direction = Sell
        /\ Listed(p)[1][2].quantity = 2
        /\ current_position[p] = Some(-2)

\* C10: when the (first) listed entry with the contract's actual code has a
\* direction that is neither Buy nor Sell, get_current_position raises, the
\* placement call ends with that error, holds no position value (neither a
\* number nor flat) and has not called api.place_order.
C10_InvalidDirectionFatal ==
    \A p \in Procs :
        Listed(p) # None =>
            LET listed == Listed(p)[1]
                got == get_current_position(catalog, Ret(Listed(p)),
                                            contract[p][1])
                M == Matching(p, listed)
            IN  (M # {} /\ listed[FirstOf(M)].direction \notin {Buy, Sell})
                  => /\ got.tag = "raise"
                     /\ pc[p] = "done"
                     /\ outcome[p] = got
                     /\ current_position[p] = None
                     /\ order[p] = None
                     /\ PlaceOrderCalls(p) = {}

\* an entry call has ended with the error of an invalid direction and
\* without any api.place_order call
C10_Witness ==
    \E p \in Procs :
        /\ req[p].fn = "place_entry_order"
        /\ Listed(p) # None
        /\ Matching(p, Listed(p)[1]) # {}
        /\ Listed(p)[1][FirstOf(Matching(p, Listed(p)[1]))].direction = Invalid
        /\ pc[p] = "done"
        /\ outcome[p].tag = "raise"
        /\ outcome[p].exc = "ValueError"
        /\ PlaceOrderCalls(p) = {}

\* the contracts a lookup can return: those listed under a supported
\* family whose symbol starts with the family's code
Tradable ==
    {c \in Pool : \E f \in DOMAIN catalog :
        /\ \E i \in DOMAIN catalog[f] : catalog[f][i] = c
        /\ \E k \in DOMAIN SUPPORTED_FUTURES : SUPPORTED_FUTURES[k] = f
        /\ StartsWith(c.symbol, f)}

\* the actual contracts of the category and month of contract c
ActualOf(c) ==
    {t \in Tradable : /\ t.category = c.category
                      /\ t.delivery_month = c.delivery_month
                      /\ t.code # t.symbol}

\* C11: resolve_actual_contract_code returns the code of a contract whose
\* code differs from its symbol unchanged; for a rolling contract (code =
\* symbol) with a tradable actual contract of the same category and delivery
\* month it returns the code of such an actual contract, never the alias.
C11_ResolvesToActualCode ==
    lookup.fn = "resolve_actual_contract_code" =>
        LET c == lookup.arg[1]
            code == lookup.res.value[1]
        IN  /\ c.code # c.symbol => code = c.code
            /\ (c.code = c.symbol /\ ActualOf(c) # {}) =>
                   /\ code \in {t.code : t \in ActualOf(c)}
                   /\ code # c.code

\* the rolling alias is listed before its actual contract and resolves to it
C11_Witness ==
    /\ lookup.fn = "resolve_actual_contract_code"
    /\ lookup.arg = Some(MXFR1)
    /\ catalog.MXF = <<MXFR1, MXF202601>>
    /\ lookup.res = Ret(Some("MXFA6"))

\* C12: get_contract_from_symbol returns a tradable contract whose symbol is
\* exactly the one asked for and raises the not-found ValueError when no
\* tradable contract has it; get_contract_from_contract_code does the same
\* by contract code.
C12_ExactLookup ==
    /\ lookup.fn = "get_contract_from_symbol" =>
          LET symbol == lookup.arg[1]
          IN  IF \E t \in Tradable : t.symbol = symbol
                THEN /\ lookup.res.tag = "return"
                     /\ lookup.res.value[1] \in Tradable
                     /\ lookup.res.value[1].symbol = symbol
              ELSE /\ lookup.res.tag = "raise"
                   /\ lookup.res.exc = "ValueError"
    /\ lookup.fn = "get_contract_from_contract_code" =>
          LET contract_code == lookup.arg[1]
          IN  IF \E t \in Tradable : t.code = contract_code
                THEN /\ lookup.res.tag = "return"
                     /\ lookup.res.value[1] \in Tradable
                     /\ lookup.res.value[1].code = contract_code
              ELSE /\ lookup.res.tag = "raise"
                   /\ lookup.res.exc = "ValueError"

\* a listed symbol is found behind another contract
C12_Witness ==
    /\ catalog.MXF = <<MXFR1, MXF202601>>
    /\ lookup.fn = "get_contract_from_symbol"
    /\ lookup.arg = Some("MXF202601")
    /\ lookup.res = Ret(Some(MXF202601))

\* the last call of check_order_status refreshed the handle and the exchange
\* reported a price for every deal
Refreshed ==
    /\ trade # None
    /\ report.update.tag = "return"
    /\ \A i \in DOMAIN trade[1].status.deals :
          trade[1].status.deals[i].price # None

\* the sums of price * quantity and of quantity over the first n deals of
\* the refreshed handle
RECURSIVE SumValues(_)
SumValues(n) ==
    IF n = 0 THEN 0
    ELSE SumValues(n - 1) + trade[1].status.deals[n].price[1]
                              * trade[1].status.deals[n].quantity
RECURSIVE SumQuantities(_)
SumQuantities(n) ==
    IF n = 0 THEN 0
    ELSE SumQuantities(n - 1) + trade[1].status.deals[n].quantity

\* C13: fill_avg_price is the sum of price * quantity over the deals divided
\* by the sum of their quantities, and 0.0 (the call reporting no error)
\* when there is no deal.
C13_FillAvgPrice ==
    Refreshed =>
        LET n == Len(trade[1].status.deals)
            avg == report.res.value[1].fill_avg_price
        IN  /\ report.res.tag = "return"
            /\ report.res.value[1].status # "error"
            /\ report.res.value[1].deals = trade[1].status.deals
            /\ avg.den > 0
            /\ IF n = 0 THEN avg = Zero
               ELSE avg.num * SumQuantities(n) = avg.den * SumValues(n)

\* two deals of different prices and quantities: (100 * 1 + 110 * 2) / 3
C13_Witness ==
    /\ Refreshed
    /\ trade[1].status.deals = <<Deal(Some(100), 1), Deal(Some(110), 2)>>
    /\ report.res.value[1].fill_avg_price = [num |-> 320, den |-> 3]

\* C14 as stated: for the absent handle check_order_status returns a report
\* equal to {status: "no_trade"} and makes no exchange call.
C14_NoTradeReportOnly ==
    (trade = None /\ report.res # Running) =>
        /\ report.res = Ret(Some([status |-> "no_trade"]))
        /\ update_status_calls = 0

\* C14 amended: for the absent handle check_order_status returns the report
\* {status: "no_trade", error: "No trade object provided"} and makes no
\* exchange call.
C14_NoTradeReport ==
    (trade = None /\ report.res # Running) =>
        /\ report.res = Ret(Some([status |-> "no_trade",
                                  error |-> "No trade object provided"]))
        /\ report.update = Running
        /\ update_status_calls = 0

C14_Witness ==
    /\ trade = None
    /\ report.res.tag = "return"
    /\ report.res.value[1].status = "no_trade"
    /\ update_status_calls = 0

\* C15: for a handle that is not None check_order_status raises nothing: when
\* the refresh raises, or reading the refreshed status does, it returns
\* {status: "error", error: the message of the exception}.
C15_FailuresReported ==
    (trade # None /\ report.res # Running) =>
        /\ report.res.tag = "return"
        /\ report.update.tag = "raise" =>
              report.res.value[1] =
                  [status |-> "error", error |-> report.update.msg]
        /\ (/\ report.update.tag = "return"
            /\ \E i \in DOMAIN trade[1].status.deals :
                  trade[1].status.deals[i].price = None) =>
              /\ report.res.value[1].status = "error"
              /\ DOMAIN report.res.value[1] = {"status", "error"}

\* the refresh succeeded and a deal without a price made the reading fail
C15_Witness ==
    /\ trade # None
    /\ report.update.tag = "return"
    /\ Len(trade[1].status.deals) = 2
    /\ trade[1].status.deals[2].price = None
    /\ report.res.tag = "return"
    /\ report.res.value[1].status = "error"

\* the rows handler p committed
RowsOf(p) == SelectSeq(db, LAMBDA row : row.by = p)

\* C16: when the engine raises OrderError during create_order, the calling
\* layer has committed one audit row with status "failed" and the error's
\* message before HTTP 400 leaves it; when the engine returns None the row's
\* status is "no_action", when it returns an order handle it is "success".
C16_AuditedOutcome ==
    \A p \in Procs :
        LET result == outcome[p]
            expected ==
                IF result.tag = "raise" THEN "failed"
                ELSE IF result.value = None THEN "no_action" ELSE "success"
        IN  /\ (/\ pc[p] \in {"committed", "responded"}
                /\ result.tag = "raise" => result.exc = "OrderError") =>
                   /\ Len(RowsOf(p)) = 1
                   /\ RowsOf(p)[1].status = expected
                   /\ result.tag = "raise" =>
                         RowsOf(p)[1].error_message = Some(result.msg)
            /\ (response[p] # None /\ response[p][1].status_code = 400) =>
                   /\ result.tag = "raise" /\ result.exc = "OrderError"
                   /\ Len(RowsOf(p)) = 1
            /\ (/\ pc[p] = "responded"
                /\ result.tag = "raise" /\ result.exc = "OrderError") =>
                   response[p][1].status_code = 400

\* the failed row of an OrderError is committed and HTTP 400 has not left yet
C16_Witness ==
    \E p \in Procs :
        /\ pc[p] = "committed"
        /\ outcome[p].tag = "raise" /\ outcome[p].exc = "OrderError"
        /\ Len(log[p]) = 3
        /\ response[p] = None
        /\ Len(RowsOf(p)) = 1
        /\ RowsOf(p)[1].status = "failed"

\* C17: check_order_status is read-only and idempotent. A call of it submits
\* no order and changes no position, it leaves a placement call in progress
\* (its request, the position it read, its order, its outcome) as it is, and
\* two calls that refresh the same handle with no change at the exchange in
\* between return equal reports.
C17_ReadOnlyIdempotent ==
    [][update_status_calls' # update_status_calls =>
          /\ UNCHANGED <<positions, orders, accepted, place_order_calls>>
          /\ UNCHANGED <<pc, req, contract, current_position, order, log,
                         outcome>>
          /\ (/\ report.update.tag = "return"
              /\ report'.update.tag = "return"
              /\ exchange_status[1] = trade[1].status) =>
                 report'.res = report.res]_vars

\* the second refresh of the handle after the exchange matched the order,
\* while the placement call waits between its position read and its
\* submission
C17_Witness ==
    /\ update_status_calls = 2
    /\ report.update.tag = "return"
    /\ exchange_status[1] = trade[1].status
    /\ exchange_status[1].status = "Filled"
    /\ report.res.value[1].status = "Filled"
    /\ pc["r1"] = "place_order"

\* the positions in a caller's log of the api.list_positions calls of its
\* call
ListPositionsCalls(p) ==
    {i \in DOMAIN log[p] : log[p][i].api = "list_positions"}

\* the session calls of a placement call come in the order contract lookup,
\* api.list_positions, api.place_order, the position list is asked for once
\* and the position the call holds is the net of the list it was given
ReadThenSubmit(p) ==
    /\ \A i \in DOMAIN log[p] :
          log[p][i].api =
              CASE i = 1 -> "Contracts"
                [] i = 2 -> "list_positions"
                [] OTHER -> "place_order"
    /\ \A i \in PlaceOrderCalls(p) : \E j \in ListPositionsCalls(p) : j < i
    /\ Cardinality(ListPositionsCalls(p)) <= 1
    /\ HasRead(p) =>
          /\ Cardinality(ListPositionsCalls(p)) = 1
          /\ \A j \in ListPositionsCalls(p) :
                /\ log[p][j].res.tag = "return"
                /\ current_position[p] =
                      Some(NetOf(log[p][j].res.value[1],
                                 resolve_actual_contract_code(catalog,
                                                              contract[p][1]),
                                 1))

\* C18: a placement call looks up the contract, then reads the position,
\* then submits: api.place_order is never called before the position list
\* was read in the same call, the list is read exactly once per call and it
\* is the exchange's list of that moment, and the position a call sizes its
\* order from is the one it read itself, never the one another call read.
C18_ReadThenSubmit ==
    [][\A p \in Procs :
          /\ ReadThenSubmit(p)'
          /\ (ListPositionsCalls(p) = {} /\ ListPositionsCalls(p)' # {}) =>
                \A j \in ListPositionsCalls(p)' :
                    log'[p][j].res.tag = "return" =>
                        log'[p][j].res.value[1] = positions]_vars

\* the second call of a caller has read the position its first call's fill
\* left, and has submitted
C18_Witness ==
    /\ calls["r1"] = 2
    /\ positions = <<[code |-> "MXFA6", direction |-> Sell, quantity |-> 1]>>
    /\ orders # <<>>
    /\ current_position["r1"] = Some(-1)
    /\ log["r1"][2].res.value[1] = positions
    /\ PlaceOrderCalls("r1") = {3}

\* the net position the exchange books on the contract of caller p
NetFor(p) ==
    NetOf(positions, resolve_actual_contract_code(catalog, contract[p][1]), 1)

\* caller p passed exactly one order to api.place_order, and it was `want`
Submitted(p, want) ==
    /\ PlaceOrderCalls(p) # {}
    /\ \A i \in PlaceOrderCalls(p) :
          log[p][i].arg = Some(want) /\ log[p][i].res.tag = "return"

\* C19: reading, sizing and submitting are not one atomic step. Two
\* concurrent long entries of q1 and q2 on one contract may both read the
\* same short position -s before either order lands; both then submit for
\* their quantity plus s, the second sized from a position the exchange no
\* longer has once the first lands, and with both filled the position is
\* q1 + q2 + s.
C19_StaleSizing ==
    \A p, q \in Procs :
        (/\ p # q
         /\ IsCall(p, "place_entry_order", Buy)
         /\ IsCall(q, "place_entry_order", Buy)
         /\ req[p].symbol = req[q].symbol
         /\ HasRead(p) /\ HasRead(q)
         /\ current_position[p] = current_position[q]
         /\ current_position[p][1] < 0
         /\ pc[p] = "done" /\ outcome[p].tag = "return"
         /\ pc[q] = "done" /\ outcome[q].tag = "return") =>
            LET short == -current_position[p][1]
            IN  /\ Submitted(p, [action |-> Buy,
                                 quantity |-> req[p].quantity + short])
                /\ Submitted(q, [action |-> Buy,
                                 quantity |-> req[q].quantity + short])
                /\ orders = <<>> =>
                      NetFor(p) = req[p].quantity + req[q].quantity + short

\* two long entries of 1 both read the short of 1, both submitted Buy 2 and
\* both orders landed: the position is 3
C19_Witness ==
    /\ IsCall("r1", "place_entry_order", Buy) /\ req["r1"].quantity = 1
    /\ IsCall("r2", "place_entry_order", Buy) /\ req["r2"].quantity = 1
    /\ current_position["r1"] = Some(-1)
    /\ current_position["r2"] = Some(-1)
    /\ Submitted("r1", [action |-> Buy, quantity |-> 2])
    /\ Submitted("r2", [action |-> Buy, quantity |-> 2])
    /\ orders = <<>>
    /\ positions = <<[code |-> "MXFA6", direction |-> Buy, quantity |-> 3]>>

\* the call of caller p returned the handle of an order that has filled
Filled(p) ==
    /\ pc[p] = "done"
    /\ outcome[p].tag = "return"
    /\ outcome[p].value # None
    /\ \A i \in DOMAIN orders : orders[i].id # outcome[p].value[1]

\* C20: with the requests serialized by an external lock and every order
\* filled completely before the next position read, a reversal closes the
\* old position and opens the new one: after a long entry of q from a
\* position p < 0 the position is +q, after a short entry of q from p > 0 it
\* is -q, and after an exit that submits it is 0.
C20_SerializedReversal ==
    \A p \in Procs :
        Filled(p) =>
            LET q == req[p].quantity
                cp == current_position[p][1]
            IN  /\ (IsCall(p, "place_entry_order", Buy) /\ cp < 0) =>
                      NetFor(p) = q
                /\ (IsCall(p, "place_entry_order", Sell) /\ cp > 0) =>
                      NetFor(p) = -q
                /\ req[p].fn = "place_exit_order" => NetFor(p) = 0

\* the second of two serialized calls, a long entry of 2 against the short
\* its predecessor's fill left, has filled: the position is +2
C20_Witness ==
    /\ serialized
    /\ accepted = 2
    /\ Filled("r1")
    /\ IsCall("r1", "place_entry_order", Buy)
    /\ req["r1"].quantity = 2
    /\ current_position["r1"][1] < 0
    /\ positions = <<[code |-> "MXFA6", direction |-> Buy, quantity |-> 2]>>

\* the caller's contract is a rolling alias without a tradable actual
\* contract of its category and delivery month
Unresolvable(p) ==
    /\ contract[p] # None
    /\ contract[p][1].code = contract[p][1].symbol
    /\ ActualOf(contract[p][1]) = {}

\* C21: for a rolling contract without a tradable actual contract of its
\* category and delivery month resolve_actual_contract_code returns the
\* rolling code and the call goes on; when the position list it is given has
\* no entry under the rolling code the position is taken as flat: an entry
\* submits exactly the requested quantity and an exit returns None without
\* submitting, whatever the list holds under the actual code.
C21_UnresolvedRollingIsFlat ==
    \A p \in Procs :
        Unresolvable(p) =>
            /\ ActualCode(p) = contract[p][1].code
            /\ (/\ Listed(p) # None
                /\ \A i \in DOMAIN Listed(p)[1] :
                      Listed(p)[1][i].code # contract[p][1].code) =>
                   /\ current_position[p] = Some(0)
                   /\ IF req[p].fn = "place_entry_order"
                        THEN SubmitsOnly(p, [action |-> req[p].action,
                                             quantity |-> req[p].quantity])
                      ELSE NoAction(p)

\* a short entry of 2 on TXFR1 has submitted Sell 2 although the exchange
\* lists a long of 1 under TXFA6, the code it books TXFR1 under
C21_Witness ==
    \E p \in Procs :
        /\ Unresolvable(p)
        /\ contract[p] = Some(TXFR1)
        /\ IsCall(p, "place_entry_order", Sell)
        /\ req[p].quantity = 2
        /\ Listed(p) # None
        /\ \E i \in DOMAIN Listed(p)[1] :
              /\ Listed(p)[1][i].code = ExchangeCode(TXFR1)
              /\ Listed(p)[1][i].direction = Buy
        /\ \E i \in PlaceOrderCalls(p) :
              log[p][i].arg = Some([action |-> Sell, quantity |-> 2])

\* C22: every create_order invocation that passed validation has committed
\* exactly one audit row by the time it ends, with status "success",
\* "no_action" or "failed", however the login, the position read or the
\* submission ended.
C22_OneAuditRow ==
    \A p \in Procs :
        /\ Len(RowsOf(p)) <= 1
        /\ pc[p] = "responded" =>
              /\ Len(RowsOf(p)) = 1
              /\ RowsOf(p)[1].status \in {"success", "no_action", "failed"}

\* C23: when the position list has more than one entry under the contract's
\* actual code, the value the call sizes from is the signed quantity of the
\* first of them in list order; the later ones are not added, so the value
\* is the net position less the net of the later entries, and it is the net
\* position when at most one entry matches.
C23_FirstMatchOnly ==
    \A p \in Procs :
        (/\ Listed(p) # None
         /\ Matching(p, Listed(p)[1]) # {}
         /\ Listed(p)[1][FirstOf(Matching(p, Listed(p)[1]))].direction
               \in {Buy, Sell}) =>
            LET listed == Listed(p)[1]
                M == Matching(p, listed)
                first == listed[FirstOf(M)]
            IN  /\ current_position[p] =
                      Some(Signed(first.direction, first.quantity))
                /\ current_position[p] =
                      Some(NetOf(listed, ActualCode(p), 1)
                             - NetOf(listed, ActualCode(p), FirstOf(M) + 1))
                /\ Cardinality(M) <= 1 =>
                      current_position[p] =
                          Some(NetOf(listed, ActualCode(p), 1))

\* a long exit read a long of 2 followed by a long of 1 under the same code:
\* it holds 2, the net is 3, and it has submitted Sell 2
C23_Witness ==
    \E p \in Procs :
        /\ IsCall(p, "place_exit_order", Buy)
        /\ Listed(p) # None
        /\ Matching(p, Listed(p)[1]) = {1, 2}
        /\ Listed(p)[1][1].direction = Buy /\ Listed(p)[1][1].quantity = 2
        /\ Listed(p)[1][2].direction = Buy /\ Listed(p)[1][2].quantity = 1
        /\ current_position[p] = Some(2)
        /\ NetOf(Listed(p)[1], ActualCode(p), 1) = 3
        /\ \E i \in PlaceOrderCalls(p) :
              log[p][i].arg = Some([action |-> Sell, quantity |-> 2])

====
